--------------------------- MODULE MCPatchEngine ---------------------------
(***************************************************************************)
(* A worktree of two paths, one of them without a file.                    *)
(***************************************************************************)
EXTENDS PatchEngine

CONSTANTS f1, f2

MCLines == {"a", "b"}

\* f2 does not exist.
MCTrees == {[f \in Paths |-> IF f = f1 THEN <<"a">> ELSE Absent]}

Replace(f) == [file |-> f, at |-> 0, del |-> <<"a">>, add |-> <<"b">>]
Insert(f) == [file |-> f, at |-> 0, del |-> <<>>, add |-> <<"b">>]

\* A file created and another extended; and a change in two files, the second of which does
\* not have the line, so that apply fails when it has replaced the first.
CreateAndExtend == [targets |-> <<f2, f1>>, hunks |-> <<Insert(f2)>>]
EditBoth == [targets |-> <<f1, f2>>, hunks |-> <<Replace(f1)>>]

MCPatches == {CreateAndExtend, EditBoth}

\* Approvals and threads are interchangeable.
MCSymmetry == Permutations(Approvals) \cup Permutations(Procs)
=============================================================================
