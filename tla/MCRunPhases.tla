---- MODULE MCRunPhases ----
EXTENDS Cockpit, TLC

CONSTANTS r1, r2

Once  == [r \in Runs |-> 1]
Twice == [r \in Runs |-> 2]
\* The second run plans, claims and ends; only the first one dispatches.
FirstDispatches == [r \in Runs |-> IF r = r1 THEN 1 ELSE 0]

\* Nothing to note, intents nobody planned, gates that are missing or weak, no proof.
Calm == [unchecked |-> FALSE, trust |-> "configured", risky |-> FALSE, pitfalls |-> FALSE, proven |-> TRUE]
Around == {Calm, [Calm EXCEPT !.unchecked = TRUE, !.pitfalls = TRUE], [Calm EXCEPT !.proven = FALSE],
           [Calm EXCEPT !.trust = "missing-required-gates", !.proven = FALSE],
           [Calm EXCEPT !.trust = "not-configured"], [Calm EXCEPT !.trust = "needs-agent-attention", !.risky = TRUE]}

Symmetry == Permutations(Sessions)
====
