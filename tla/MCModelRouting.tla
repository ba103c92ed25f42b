--------------------------- MODULE MCModelRouting ---------------------------
EXTENDS ModelRouting, TLC

CONSTANTS p1, p2, b1, b2, c1, c2

MCProviders == {p1, p2}
MCClients == {c1, c2}
MCInProject == MCClients
MCDiagnostic == MCClients
MCPrice == [p \in {p1, p2, b1, b2} |-> 1]
MCReports == {[prompt |-> 3, completion |-> 1, cached |-> 2, miss |-> Unknown, total |-> Unknown],
              [prompt |-> 3, completion |-> 1, cached |-> 1, miss |-> 2, total |-> 4]}
MCEstimate == [input |-> 2, output |-> 2, cached |-> Unknown, miss |-> Unknown, total |-> 4]
MCRoutes == {[provider |-> b1, fallback |-> b2, capped |-> TRUE]}
                \cup [provider : {p1, p2}, fallback : {None}, capped : {FALSE}]
Symmetry == Permutations({p1, p2}) \cup Permutations(MCClients)

\* Bound: the server dies, a day passes or usage is kept for ever, one at a time; a day
\* that passes takes the place of a request.
OneDisturbance ==
    /\ deaths + now + (IF retained THEN 1 ELSE 0) <= 1
    /\ served + now <= MaxRequests
=============================================================================
