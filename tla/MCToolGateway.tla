--------------------------- MODULE MCToolGateway ---------------------------
(* Small instances of ToolGateway for TLC. *)
EXTENDS ToolGateway

\* Two small contents and a large one: the small ones use up the number of records,
\* the large one fits only when nothing else is stored.
ResultOf == [k \in Reads |-> CASE k = "x" -> "c" [] k = "y" -> "d" [] k = "z" -> "large"]
Lengths == [c \in Contents |-> IF c = "large" THEN 2 ELSE 1]
=============================================================================
