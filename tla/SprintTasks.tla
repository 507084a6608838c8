---- MODULE SprintTasks ----
(***************************************************************************)
(* The sprint board's pure functions: lib/sprint-board/core.mjs and the    *)
(* state transformers of sprint-board.mjs. A board maps the ids of its     *)
(* tasks to records. Ids are numbers in the order of creation, so that the *)
(* id breaks every tie the code breaks with createdAt and id. A claim's    *)
(* expiry time is abstracted to whether it has passed ("lapsed"): every    *)
(* reader asks only that.                                                  *)
(***************************************************************************)
EXTENDS Integers, FiniteSets

CONSTANTS
  TaskIds,      \* the ids a board may use, a set of positive numbers
  Runs,         \* the orchestration runs that claim tasks
  NoRun         \* the claimant of an unclaimed task

ASSUME SprintAssumption == TaskIds \subseteq (Nat \ {0}) /\ IsFiniteSet(TaskIds)
                           /\ NoRun \notin Runs

TaskStates == {"Backlog", "InProgress", "Review", "Testing", "Failed", "Done"}
NextOrder == <<"Failed", "Testing", "Review", "InProgress", "Backlog">>

TaskType == [state: TaskStates, prio: 0..3, deps: SUBSET TaskIds, fails: Nat,
             by: Runs \union {NoRun}, lapsed: BOOLEAN, prev: Runs \union {NoRun}]

NewTask(prio, deps) ==
  [state |-> "Backlog", prio |-> prio, deps |-> deps, fails |-> 0,
   by |-> NoRun, lapsed |-> FALSE, prev |-> NoRun]

-----------------------------------------------------------------------------
(* Order, dependencies, claims. *)

Precedes(b, s, t) == \/ b[s].prio < b[t].prio
                     \/ b[s].prio = b[t].prio /\ s < t

First(b, S) == CHOOSE t \in S : \A u \in S \ {t} : Precedes(b, t, u)

\* The first n tasks of S in the board's order.
Leading(b, S, n) == {t \in S : Cardinality({u \in S : Precedes(b, u, t)}) < n}

DoneIds(b) == {t \in DOMAIN b : b[t].state = "Done"}

DependenciesDone(b, t) == b[t].deps \subseteq DoneIds(b)

ActiveClaim(b, t) == b[t].by # NoRun /\ ~b[t].lapsed

\* Some tasks wait for one another; a dependency on an unknown id is skipped.
HasCycle(b) == \E C \in SUBSET DOMAIN b :
                 C # {} /\ \A t \in C : b[t].deps \intersect C # {}

-----------------------------------------------------------------------------
(* Selection. *)

\* The gate a claim puts before a task in state s: without a run id (the loop
\* and the "next" command) it hides Backlog tasks only.
ClaimOpen(b, t, s, run) ==
  \/ ~ActiveClaim(b, t)
  \/ IF run = NoRun THEN s # "Backlog" ELSE b[t].by = run

Candidates(b, s, run) ==
  {t \in DOMAIN b : b[t].state = s /\ ClaimOpen(b, t, s, run)
                    /\ (s = "Backlog" => DependenciesDone(b, t))}

Actionable(b, run) == UNION {Candidates(b, NextOrder[i], run) : i \in 1..5}

\* findNextTask: the first task of the first state that has one.
NextTask(b, run) ==
  LET i == CHOOSE i \in 1..5 : /\ Candidates(b, NextOrder[i], run) # {}
                               /\ \A j \in 1..(i - 1) : Candidates(b, NextOrder[j], run) = {}
  IN First(b, Candidates(b, NextOrder[i], run))

\* The tasks that may run beside the primary one.
Parallelizable(b, primary, run) ==
  {t \in DOMAIN b \ {primary} :
     /\ b[t].state = "Backlog"
     /\ ~ActiveClaim(b, t) \/ b[t].by = run
     /\ primary \notin b[t].deps
     /\ DependenciesDone(b, t)}

\* buildParallelPlan, with the budget of plan --max-claim (0: none): the tasks of the plan.
PlanTasks(b, run, maxParallel, maxClaim) ==
  LET primary == NextTask(b, run)
      width   == IF b[primary].state \in {"Backlog", "InProgress"} THEN maxParallel ELSE 0
      cut     == IF maxClaim > 0 /\ maxClaim - 1 < width THEN maxClaim - 1 ELSE width
  IN {primary} \union Leading(b, Parallelizable(b, primary, run), cut)

-----------------------------------------------------------------------------
(* Transformers. *)

\* claimTasksInState: a stolen claim leaves the name of its last owner.
Claim(b, run, S) ==
  [t \in DOMAIN b |->
     IF t \notin S THEN b[t]
     ELSE [b[t] EXCEPT !.by = run, !.lapsed = FALSE,
                       !.prev = IF b[t].by \notin {NoRun, run} /\ b[t].lapsed THEN b[t].by
                                ELSE b[t].prev]]

\* The tasks of S that a run may claim by name: free, lapsed, or its own.
ClaimableByName(b, run, S) == {t \in S \intersect DOMAIN b : ~ActiveClaim(b, t) \/ b[t].by = run}

\* releaseClaimsInState: only the run's own claims, of one task or of all.
ReleaseTasks(b, run, S) ==
  [t \in DOMAIN b |->
     IF b[t].by = run /\ t \in S THEN [b[t] EXCEPT !.by = NoRun, !.lapsed = FALSE, !.prev = NoRun]
     ELSE b[t]]
Release(b, run) == ReleaseTasks(b, run, DOMAIN b)

Claimed(b, run) == {t \in DOMAIN b : b[t].by = run}

\* updateTask with --state: no claim is touched.
SetState(b, t, s) ==
  [b EXCEPT ![t].state = s,
            ![t].fails = CASE s = "Failed" -> b[t].fails + 1
                           [] s = "Done"   -> 0
                           [] OTHER        -> b[t].fails]

\* The claim of t passes its expiry time.
Lapse(b, t) == [b EXCEPT ![t].lapsed = TRUE]

Pending(b) == {t \in DOMAIN b : b[t].state # "Done"}
====
