----------------------------- MODULE MCApproval -----------------------------
(***************************************************************************)
(* Diffs over three revisions of the target file.                          *)
(***************************************************************************)
EXTENDS Approval

\* Two diffs with context lines, for the first and the second revision, and an
\* insertion at the top, which fits on every revision.
MCDiffs == {{0}, {1}, 0..3}
=============================================================================
