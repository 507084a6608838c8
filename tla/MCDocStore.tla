---- MODULE MCDocStore ----
EXTENDS DocStore, TLC

CONSTANTS a, b

Doc(out, inb) == [rev |-> 1, arch |-> FALSE, out |-> out, inb |-> inb, by |-> 0]

\* An empty store, and stores of a document a that b refers to, or does not yet.
Stores == {NoEntries,
           (a :> Doc({}, {})) @@ (b :> Doc({}, {})),
           (a :> Doc({}, {<<b, "weak">>})) @@ (b :> Doc({<<a, "weak">>}, {}))}

\* Nothing, or one relation to a.
FewRefs == {{}} \union {{<<a, s>>} : s \in Strengths}

\* What follows a weakness is of interest to no property.
Interesting == spoilt \subseteq {"read"}

Repeated == spoilt \subseteq {"half"}

Symmetry == Permutations(Handles)
====
