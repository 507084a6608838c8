---- MODULE MCTaskLoop ----
EXTENDS TaskLoop, TLC

CONSTANTS f, g

FailedTwice == [NewTask(2, {}) EXCEPT !.state = "Failed", !.fails = 2]

\* Two independent tasks, one that depends on a task near its limit, and a dependency cycle.
SmallBoards == {<<NewTask(1, {}), NewTask(1, {})>>,
                <<FailedTwice, NewTask(1, {1})>>,
                <<NewTask(1, {2}), NewTask(1, {1})>>}

\* The task a finding leads to works on the first task's file.
Owner == [t \in TaskIds |-> IF t = 2 THEN g ELSE f]

OneRun == {}
====
