---- MODULE MCGovernance ----
(* Small instances of the parts around a run. *)
EXTENDS Governance, TLC

CONSTANTS p1, p2

TwoProcesses == {p1, p2}
Symmetry == Permutations(TwoProcesses)

\* Two goals, one of them asked for twice, and a constraint; two planners.
LineTexts == 1..4
Kinds == <<"objective", "note", "objective", "objective">>
Words == <<"a", "c", "b", "a">>

\* Two old pitfalls, with a placeholder and a gate that repeats another, and a new one.
Numbers == 1..3
Old == {1, 2}
Suggestions == <<"echo", "build", "check">>
Commands == {"check", "echo", "build"}
Placeholders == {"echo"}
Repeated == {"build"}
Answered == {"fixed", "other"}

\* Nothing said, a finding without a verdict, both verdicts, a verdict with a
\* finding, and a verdict taken back.
Prints == {[status |-> <<>>, blocking |-> FALSE], [status |-> <<>>, blocking |-> TRUE],
           [status |-> <<"PASS">>, blocking |-> FALSE], [status |-> <<"FAIL">>, blocking |-> FALSE],
           [status |-> <<"PASS">>, blocking |-> TRUE], [status |-> <<"PASS", "FAIL">>, blocking |-> FALSE]}

\* Everything required with a fallback, an advisory review and eval, no eval,
\* and a project without acceptance gate.
All == {"build", "review", "acceptance", "eval"}
Projects == {[gates |-> All, advisory |-> {}, fallback |-> TRUE],
             [gates |-> All, advisory |-> {"review", "eval"}, fallback |-> FALSE],
             [gates |-> All \ {"eval"}, advisory |-> {}, fallback |-> FALSE],
             [gates |-> All \ {"acceptance"}, advisory |-> {}, fallback |-> FALSE]}

\* A verdict, a finding in spite of it, two streams that disagree, a verdict
\* that diagnostics follow, and none.
Answers == {[exit |-> 0, critical |-> FALSE, out |-> <<"text", "PASS">>, err |-> <<"text">>],
            [exit |-> 0, critical |-> TRUE, out |-> <<"PASS">>, err |-> <<>>],
            [exit |-> 0, critical |-> FALSE, out |-> <<"FAIL", "PASS">>, err |-> <<>>],
            [exit |-> 0, critical |-> FALSE, out |-> <<"text">>, err |-> <<"FAIL", "PASS">>],
            [exit |-> 0, critical |-> FALSE, out |-> <<"PASS", "text">>, err |-> <<"PASS">>],
            [exit |-> 1, critical |-> FALSE, out |-> <<"PASS">>, err |-> <<>>]}

\* Two sessions; one plan is bound to a version of the file, the other to none.
PlanNames == {"bound", "free"}
Bindings == [bound |-> 1, free |-> 0]

\* Two packages that ship a configuration, a template, one with tokens and two scripts.
TemplateWalk == <<"config", "plain", "tokens">>
ScriptWalk == <<"s1", "s2">>
Kept == {"config"}
Rendered == {"config", "tokens"}

\* Two tracks, in a pool for both: for others there are the theorems.
PoolSizes == {2}

\* A store whose configuration names the default roots or others.
StoreRoots == {"default", "own"}
====
