---------------------------- MODULE PatchEngine ----------------------------
(***************************************************************************)
(* Patches in a task's sandbox worktree: the part of the executor node     *)
(* that binds a patch to its targets and applies it (agents/executor.py),  *)
(* PatchApplier.apply with its backups and manifest (core/patch_engine.py) *)
(* and the rollback of an applied patch (core/rollback.py).                *)
(*                                                                         *)
(* Nothing locks a worktree: two resumes of one task and a rollback may    *)
(* work on it at the same time.  Every read, copy, append, replacement and *)
(* opening of a file is a step of its own, so the others, an I/O error or  *)
(* the end of the server come between any two of them.                     *)
(***************************************************************************)
EXTENDS Naturals, Sequences, FiniteSets, SequencesExt

CONSTANTS
    Paths,      \* relative paths of the worktree
    Lines,      \* text lines
    InitTrees,  \* initial worktrees
    Patches,    \* proposals: [targets : Seq(Paths), hunks : Seq(hunk)]
    Approvals,  \* ids of patch approvals
    Procs,      \* threads that execute or roll back patches of this worktree
    MaxRuns,    \* bound: executions and rollbacks started
    MaxFaults,  \* bound: I/O errors, deaths of the server and lost backups
    Absent,     \* content of a path with no file
    Fail,       \* result of a hunk that does not fit
    None

\* A hunk starts at line at + 1 and replaces the lines del by the lines add
\* (a context line is in both); file is the header it stands under.
IsHunk(h) == /\ h.file \in Paths /\ h.at \in Nat
             /\ h.del \in Seq(Lines) /\ h.add \in Seq(Lines)

ASSUME PatchEngineAssumption ==
    /\ MaxRuns \in Nat
    /\ MaxFaults \in Nat
    /\ \A x \in Patches : /\ x.targets \in Seq(Paths) /\ x.targets # <<>>
                          /\ \A k \in DOMAIN x.hunks : IsHunk(x.hunks[k])
    /\ Absent \notin Seq(Lines) /\ Fail \notin Seq(Lines) /\ Absent # Fail
    /\ \A t \in InitTrees : t \in [Paths -> Seq(Lines) \cup {Absent}]
    /\ None \notin Patches

VARIABLES
    tree,      \* content of every path: its lines, or Absent
    tmp,       \* content of the temporary file beside every path
    backups,   \* backup files: [of, text]; a file that is gone has text Absent
    manifest,  \* backup-manifest.jsonl: [appr, target, backup], backup 0 = created
    patch,     \* the proposal an approval id stands for
    bound,     \* the target contents each requested approval is bound to (target_hash)
    op,        \* what each thread executes
    (* history *)
    runs,      \* executions and rollbacks started so far
    faults,    \* faults so far
    clean,     \* per manifest entry: nobody else had changed the target by then
    written,   \* per path, the apply that replaced it last: [appr, was, late]
    last       \* what ended last: [outcome, appr, whole, passed, hit]

patchVars == <<tree, tmp, backups, manifest, patch, bound, op,
               runs, faults, clean, written, last>>

\* kept is backup_files, backup the one of the current target, new the text to be
\* written; todo the manifest entries a rollback has still to go through.  History: the
\* entries it has passed, hit and late the paths others have written to since the hashes
\* (the start of the rollback) and since the current target was read.
Idle == [pc |-> "idle", appr |-> None, i |-> 0, new |-> <<>>, backup |-> 0, kept |-> <<>>,
         todo |-> {}, restored |-> FALSE, missing |-> FALSE,
         passed |-> {}, hit |-> {}, late |-> {}]

PatchInit ==
    /\ tree \in InitTrees
    /\ tmp = [f \in Paths |-> Absent]
    /\ backups = <<>>
    /\ manifest = <<>>
    /\ patch = [a \in Approvals |-> None]
    /\ bound = <<>>
    /\ op = [p \in Procs |-> Idle]
    /\ runs = 0
    /\ faults = 0
    /\ clean = <<>>
    /\ written = [f \in Paths |-> None]
    /\ last = None

(***************************************************************************)
(* _apply_hunk, _apply_diff_to_file, PatchValidator                        *)
(***************************************************************************)
\* old_text: a missing file reads as the empty text.
Text(c) == IF c = Absent THEN <<>> ELSE c

ApplyHunk(text, h) ==
    LET end == h.at + Len(h.del)
    IN IF end <= Len(text) /\ SubSeq(text, h.at + 1, end) = h.del
       THEN SubSeq(text, 1, h.at) \o h.add \o SubSeq(text, end + 1, Len(text))
       ELSE Fail

ApplyHunks(hunks, text) ==
    FoldLeft(LAMBDA t, h : IF t = Fail THEN Fail ELSE ApplyHunk(t, h), text, hunks)

\* Every hunk of the diff is applied, whatever file it stands under.
ApplyDiff(x, c) == ApplyHunks(x.hunks, Text(c))

\* Only a patch with a single target is tried out before approval.
Valid(x) ==
    /\ x.hunks # <<>>
    /\ Len(x.targets) = 1 => ApplyDiff(x, tree[x.targets[1]]) # Fail

Targets(x) == Range(x.targets)

Hashes(x) == [f \in Targets(x) |-> tree[f]]

(***************************************************************************)
(* Steps                                                                   *)
(***************************************************************************)
Set(p, o) == op' = [op EXCEPT ![p] = o]

\* Thread p goes on with o and has changed the content of f to c: the others were hit.
Write(p, o, f, c) ==
    /\ tree' = [tree EXCEPT ![f] = c]
    /\ op' = [q \in Procs |-> IF q = p THEN o
                              ELSE IF op[q].pc = "idle" THEN op[q]
                              ELSE [op[q] EXCEPT !.hit = @ \cup {f}, !.late = @ \cup {f}]]

\* What ended last is told apart from what is written later.
Since(f) == IF last = None THEN None ELSE [last EXCEPT !.hit = @ \cup {f}]

Told(p, outcome, whole) ==
    [outcome |-> outcome, appr |-> op[p].appr, whole |-> whole,
     passed |-> op[p].passed, hit |-> op[p].hit]

Finish(p, outcome, whole) == Set(p, Idle) /\ last' = Told(p, outcome, whole)

StartOp(p, o) == op[p].pc = "idle" /\ runs < MaxRuns /\ runs' = runs + 1 /\ Set(p, o)

(***************************************************************************)
(* The executor node                                                       *)
(***************************************************************************)
\* The node proposes a patch and validates it; a replay proposes it once more.
ProposePatch(p, a, x) ==
    /\ patch[a] \in {None, x}
    /\ Valid(x)
    /\ patch' = [patch EXCEPT ![a] = x]
    /\ StartOp(p, [Idle EXCEPT !.pc = "hash", !.appr = a])
    /\ UNCHANGED <<tree, tmp, backups, manifest, bound, faults, clean, written, last>>

BindTo(a, now) == IF a \in DOMAIN bound THEN bound
                ELSE [b \in DOMAIN bound \cup {a} |-> IF b = a THEN now ELSE bound[b]]

\* Mutant: a replay does not compare the target hashes with the approval's.
BugVerifyBase(p) ==
    /\ op[p].pc = "hash"
    /\ bound' = BindTo(op[p].appr, Hashes(patch[op[p].appr]))
    /\ \/ Set(p, Idle)
       \/ Set(p, [op[p] EXCEPT !.pc = "read", !.i = 1, !.hit = {}])
    /\ UNCHANGED <<tree, tmp, backups, manifest, patch, runs, faults, clean, written, last>>

\* The node hashes the targets.  A new request is bound to these hashes; with a request
\* made before, verify_execution compares them with its own and refuses the patch if they
\* differ.  The node then waits for a decision (and is replayed) or has the approval, the
\* person's or the permission mode's, and applies.
VerifyBase(p) ==
    /\ op[p].pc = "hash"
    /\ LET a == op[p].appr
           now == Hashes(patch[a])
       IN /\ bound' = BindTo(a, now)
          /\ \/ Set(p, Idle)
             \/ bound'[a] = now /\ Set(p, [op[p] EXCEPT !.pc = "read", !.i = 1, !.hit = {}])
    /\ UNCHANGED <<tree, tmp, backups, manifest, patch, runs, faults, clean, written, last>>

(***************************************************************************)
(* PatchApplier.apply                                                      *)
(***************************************************************************)
Target(p) == patch[op[p].appr].targets[op[p].i]

\* Read the target and compute its new text; a hunk that does not fit raises.
ReadTarget(p) ==
    /\ op[p].pc = "read"
    /\ LET new == ApplyDiff(patch[op[p].appr], tree[Target(p)])
       IN IF new = Fail THEN Set(p, [op[p] EXCEPT !.pc = "restore"])
          ELSE Set(p, [op[p] EXCEPT !.pc = "save", !.new = new, !.late = {}])
    /\ UNCHANGED <<tree, tmp, backups, manifest, patch, bound, runs, faults, clean, written, last>>

\* Copy the file, if there is one, to a backup file and remember the pair in backup_files.
SaveTarget(p) ==
    /\ op[p].pc = "save"
    /\ IF tree[Target(p)] = Absent
       THEN /\ Set(p, [op[p] EXCEPT !.pc = "note", !.backup = 0])
            /\ UNCHANGED backups
       ELSE /\ backups' = Append(backups, [of |-> Target(p), text |-> tree[Target(p)]])
            /\ Set(p, [op[p] EXCEPT !.pc = "note", !.backup = Len(backups) + 1,
                                    !.kept = Append(@, Len(backups) + 1)])
    /\ UNCHANGED <<tree, tmp, manifest, patch, bound, runs, faults, clean, written, last>>

\* Mutant: created files get no manifest entry.
BugNoteTarget(p) ==
    /\ op[p].pc = "note"
    /\ IF op[p].backup = 0 THEN UNCHANGED <<manifest, clean>>
       ELSE /\ manifest' = Append(manifest, [appr |-> op[p].appr, target |-> Target(p),
                                             backup |-> op[p].backup])
            /\ clean' = Append(clean, Target(p) \notin op[p].hit)
    /\ Set(p, [op[p] EXCEPT !.pc = "write"])
    /\ UNCHANGED <<tree, tmp, backups, patch, bound, runs, faults, written, last>>

\* Append the manifest entry.
NoteTarget(p) ==
    /\ op[p].pc = "note"
    /\ manifest' = Append(manifest, [appr |-> op[p].appr, target |-> Target(p),
                                     backup |-> op[p].backup])
    /\ clean' = Append(clean, Target(p) \notin op[p].hit)
    /\ Set(p, [op[p] EXCEPT !.pc = "write"])
    /\ UNCHANGED <<tree, tmp, backups, patch, bound, runs, faults, written, last>>

\* Write the new text to the temporary file, which has one name for every thread.
WriteTmp(p) ==
    /\ op[p].pc = "write"
    /\ tmp' = [tmp EXCEPT ![Target(p)] = op[p].new]
    /\ op' = [q \in Procs |-> IF q = p THEN [op[p] EXCEPT !.pc = "replace"]
                              ELSE IF op[q].pc = "idle" THEN op[q]
                              ELSE [op[q] EXCEPT !.late = @ \cup {Target(p)}]]
    /\ UNCHANGED <<tree, backups, manifest, patch, bound, runs, faults, clean, written, last>>

\* Move it over the target, or raise if another thread has moved it already; after the
\* last target apply returns.
ReplaceTarget(p) ==
    /\ op[p].pc = "replace"
    /\ LET f == Target(p)
           done == op[p].i = Len(patch[op[p].appr].targets)
       IN IF tmp[f] = Absent
          THEN Set(p, [op[p] EXCEPT !.pc = "restore"]) /\ UNCHANGED <<tree, tmp, written, last>>
          ELSE /\ Write(p, IF done THEN Idle ELSE [op[p] EXCEPT !.pc = "read", !.i = @ + 1],
                        f, tmp[f])
               /\ tmp' = [tmp EXCEPT ![f] = Absent]
               /\ written' = [written EXCEPT ![f] = [appr |-> op[p].appr, was |-> tree[f],
                                                     late |-> f \in op[p].late]]
               /\ last' = IF done THEN Told(p, "applied", TRUE) ELSE Since(f)
    /\ UNCHANGED <<backups, manifest, patch, bound, runs, faults, clean>>

\* Mutant: only the first of the files is put back.
BugEndRestore(p) ==
    /\ op[p].pc = "restore"
    /\ Len(op[p].kept) < 2 /\ Finish(p, "failed", TRUE)
    /\ UNCHANGED <<tree, tmp, backups, manifest, patch, bound, runs, faults, clean, written>>

\* The except branch has put every file of backup_files back: apply raises.
EndRestore(p) ==
    /\ op[p].pc = "restore" /\ op[p].kept = <<>>
    /\ Finish(p, "failed", TRUE)
    /\ UNCHANGED <<tree, tmp, backups, manifest, patch, bound, runs, faults, clean, written>>

\* The except branch copies a backup file back.  copy2 raises if it is gone, which ends
\* apply with the rest not restored; the executor reports the same "rolled back".
\* Otherwise the target is opened, which empties it, ...
OpenTarget(p) ==
    /\ op[p].pc = "restore" /\ op[p].kept # <<>>
    /\ LET b == backups[op[p].kept[1]]
       IN IF b.text = Absent
          THEN Finish(p, "failed", FALSE) /\ UNCHANGED tree
          ELSE /\ Write(p, [op[p] EXCEPT !.pc = "refill", !.new = b.text], b.of, <<>>)
               /\ last' = Since(b.of)
    /\ UNCHANGED <<tmp, backups, manifest, patch, bound, runs, faults, clean, written>>

\* ... and filled.
RefillTarget(p) ==
    /\ op[p].pc = "refill"
    /\ LET f == backups[op[p].kept[1]].of
       IN /\ Write(p, [op[p] EXCEPT !.pc = "restore", !.kept = Tail(@)], f, op[p].new)
          /\ written' = [written EXCEPT ![f] = None]
          /\ last' = Since(f)
    /\ UNCHANGED <<tmp, backups, manifest, patch, bound, runs, faults, clean>>

(***************************************************************************)
(* WorkspaceRollback.rollback_patch                                        *)
(***************************************************************************)
EntriesOf(a) == {k \in DOMAIN manifest : manifest[k].appr = a}

\* The request for the rollback is approved and names no patch: any approved one will do.
\* The manifest is read once, at the start.
StartRollback(p, a) ==
    /\ manifest # <<>>
    /\ StartOp(p, [Idle EXCEPT !.pc = "rollback", !.appr = a, !.todo = EntriesOf(a)])
    /\ UNCHANGED <<tree, tmp, backups, manifest, patch, bound, faults, clean, written, last>>

\* Entries are taken in the order of the manifest.
First(entries) == {k \in entries : \A j \in entries : k <= j}

Pass(o, k) == [o EXCEPT !.pc = "rollback", !.todo = @ \ {k}, !.restored = TRUE,
                        !.passed = @ \cup {k}, !.hit = @ \ {manifest[k].target}]

\* The backup file that entry k names is gone; a created file has none.
Gone(k) == manifest[k].backup # 0 /\ backups[manifest[k].backup].text = Absent

\* Mutant: a missing backup is skipped in silence.
BugMissBackup(p) ==
    /\ op[p].pc = "rollback"
    /\ \E k \in First(op[p].todo) : Gone(k) /\ Set(p, Pass(op[p], k))
    /\ UNCHANGED <<tree, tmp, backups, manifest, patch, bound, runs, faults, clean, written, last>>

\* A backup file that is gone is noted.
MissBackup(p) ==
    /\ op[p].pc = "rollback"
    /\ \E k \in First(op[p].todo) :
         Gone(k) /\ Set(p, [op[p] EXCEPT !.todo = @ \ {k}, !.missing = TRUE])
    /\ UNCHANGED <<tree, tmp, backups, manifest, patch, bound, runs, faults, clean, written, last>>

\* A created file goes to the trash, or is absent already.
TrashTarget(p) ==
    /\ op[p].pc = "rollback"
    /\ \E k \in First(op[p].todo) : LET f == manifest[k].target IN
         /\ manifest[k].backup = 0
         /\ Write(p, Pass(op[p], k), f, Absent)
         /\ written' = [written EXCEPT ![f] = None]
         /\ last' = Since(f)
    /\ UNCHANGED <<tmp, backups, manifest, patch, bound, runs, faults, clean>>

\* Any other gets its backup copied back: opened, which empties it, ...
OpenEntry(p) ==
    /\ op[p].pc = "rollback"
    /\ \E k \in First(op[p].todo) : LET f == manifest[k].target IN
         /\ manifest[k].backup # 0 /\ ~Gone(k)
         /\ Write(p, [op[p] EXCEPT !.pc = "rewrite", !.new = backups[manifest[k].backup].text,
                                   !.hit = @ \cup {f}], f, <<>>)
         /\ last' = Since(f)
    /\ UNCHANGED <<tmp, backups, manifest, patch, bound, runs, faults, clean, written>>

\* ... and filled.
RewriteEntry(p) ==
    /\ op[p].pc = "rewrite"
    /\ \E k \in First(op[p].todo) : LET f == manifest[k].target IN
         /\ Write(p, Pass(op[p], k), f, op[p].new)
         /\ written' = [written EXCEPT ![f] = None]
         /\ last' = Since(f)
    /\ UNCHANGED <<tmp, backups, manifest, patch, bound, runs, faults, clean>>

\* The rollback reports what it has done, or that nothing was found.
EndRollback(p) ==
    /\ op[p].pc = "rollback" /\ op[p].todo = {}
    /\ Finish(p, CASE op[p].missing -> "incomplete"
                   [] ~op[p].missing /\ op[p].restored -> "ok"
                   [] OTHER -> "no_backups", TRUE)
    /\ UNCHANGED <<tree, tmp, backups, manifest, patch, bound, runs, faults, clean, written>>

(***************************************************************************)
(* Faults                                                                  *)
(***************************************************************************)
Fault == faults < MaxFaults /\ faults' = faults + 1

\* An I/O error inside the try block starts the recovery; one inside the recovery, or in
\* a rollback, ends it where it is.
IOError(p) ==
    /\ Fault
    /\ \/ /\ op[p].pc \in {"read", "save", "note", "write", "replace"}
          /\ Set(p, [op[p] EXCEPT !.pc = "restore"]) /\ UNCHANGED last
       \/ op[p].pc \in {"restore", "refill"} /\ Finish(p, "failed", FALSE)
       \/ op[p].pc \in {"rollback", "rewrite"} /\ Finish(p, "error", FALSE)
    /\ UNCHANGED <<tree, tmp, backups, manifest, patch, bound, runs, clean, written>>

\* The server dies: what is in memory is lost, nothing is restored.
ServerDies ==
    /\ Fault
    /\ \E p \in Procs : op[p].pc # "idle"
    /\ op' = [p \in Procs |-> Idle]
    /\ UNCHANGED <<tree, tmp, backups, manifest, patch, bound, runs, clean, written, last>>

\* A backup file disappears (outside the program's control).
LoseBackup(k) ==
    /\ Fault
    /\ backups[k].text # Absent
    /\ backups' = [backups EXCEPT ![k].text = Absent]
    /\ UNCHANGED <<tree, tmp, manifest, patch, bound, op, runs, clean, written, last>>

Steps(p) ==
    \/ \E a \in Approvals, x \in Patches : ProposePatch(p, a, x)
    \/ VerifyBase(p)
    \/ ReadTarget(p) \/ SaveTarget(p) \/ NoteTarget(p) \/ WriteTmp(p) \/ ReplaceTarget(p)
    \/ EndRestore(p) \/ OpenTarget(p) \/ RefillTarget(p)
    \/ \E a \in Approvals : StartRollback(p, a)
    \/ MissBackup(p) \/ TrashTarget(p) \/ OpenEntry(p) \/ RewriteEntry(p) \/ EndRollback(p)

PatchNext ==
    \/ \E p \in Procs : Steps(p) \/ IOError(p)
    \/ ServerDies
    \/ \E k \in DOMAIN backups : LoseBackup(k)

PatchSpec == PatchInit /\ [][PatchNext]_patchVars
----------------------------------------------------------------------------
\* A patch that lists each of its targets once, as the executors' patches do, which have
\* one.  validate accepts any list: a file that is listed twice would be backed up twice,
\* the second time with the patch's own content, and that backup be copied back last.
EachOnce(x) == x # None /\ IsInjective(x.targets)

\* What a rollback finds for entry k: the replaced content, unless the backup is gone.
Kept(k, c) ==
    IF manifest[k].backup = 0 THEN c = Absent
    ELSE backups[manifest[k].backup].text \in {c, Absent} /\ c # Absent

\* A file is replaced in the content the user approved the patch on, or another thread
\* has written to it since this one took the hashes; and even then the new text is the
\* approved diff carried out on the very text it replaces, unless another thread came
\* between that reading and this write (verify_execution, apply).
ReplacesApprovedBase ==
    \A p \in Procs : op[p].pc = "replace" =>
        LET a == op[p].appr
            f == Target(p)
        IN /\ EachOnce(patch[a]) /\ f \notin op[p].hit => tree[f] = bound[a][f]
           /\ f \notin op[p].late => tmp[f] = ApplyDiff(patch[a], tree[f])

\* Whatever error or death an apply meets, even in its own recovery, and whatever other
\* threads do: each file it has replaced has a manifest entry by which a rollback finds
\* what was replaced (apply appends the entry before it writes).
WritesRecoverable ==
    \A f \in Paths : written[f] # None =>
        \E k \in EntriesOf(written[f].appr) :
            manifest[k].target = f /\ (written[f].late \/ Kept(k, written[f].was))

\* An apply that failed and got through its recovery has put every file that existed back
\* to the approved content, except where others have written since it took the hashes.
FailedRestoresExisting ==
    last # None /\ last.outcome = "failed" /\ last.whole /\ EachOnce(patch[last.appr]) =>
        \A f \in Targets(patch[last.appr]) :
            bound[last.appr][f] # Absent /\ f \notin last.hit => tree[f] = bound[last.appr][f]

\* A rollback that reports success has left nothing of its patch in the worktree, and the
\* files are in the content the patch was approved on, except where another thread wrote
\* since the rollback began, or between the hashes and the backup (rollback_patch).
RollbackRestores ==
    last # None /\ last.outcome = "ok" =>
        /\ \A f \in Paths : written[f] # None /\ written[f].appr = last.appr => f \in last.hit
        /\ EachOnce(patch[last.appr]) =>
             \A k \in last.passed :
                LET f == manifest[k].target
                IN f \notin last.hit /\ (\A j \in last.passed : manifest[j].target = f => clean[j])
                     => tree[f] = bound[last.appr][f]

\* There is a way back from what an apply has written, and a recovery that says it is done
\* has gone it.
Recoverable == WritesRecoverable /\ FailedRestoresExisting /\ RollbackRestores
=============================================================================
