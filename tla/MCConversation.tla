--------------------------- MODULE MCConversation ---------------------------
(***************************************************************************)
(* Two threads, three directories for workspaces, and one sandbox task.    *)
(***************************************************************************)
EXTENDS Conversation, TLC

\* The threads are alike, and so are the directories nothing is kept in at first.
Symmetry == Permutations(Clients) \cup Permutations(Dirs \ {Default})
=============================================================================
