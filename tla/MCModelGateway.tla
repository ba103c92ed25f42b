--------------------------- MODULE MCModelGateway ---------------------------
(***************************************************************************)
(* Small budgets: requests of one or two units against a budget of five.   *)
(***************************************************************************)
EXTENDS ModelGateway

MCRoleLimit == [r \in Roles |-> IF r = "executor" THEN 2 ELSE 1]

\* Estimates that are met, or not used up.
MCUsages == {[est |-> 1, act |-> 1], [est |-> 2, act |-> 1], [est |-> 2, act |-> 2]}
=============================================================================
